---- MODULE Spec2Model ----
(***************************************************************************)
(* Model of update_data.py: the four provider fetchers (fetch_tmdb,        *)
(* fetch_tmdb_tv, fetch_tvmaze, fetch_wikidata), their retry loops, the    *)
(* trailer selection and main's assembly of the output document.           *)
(*                                                                         *)
(* One action is one HTTP GET together with everything the code does with  *)
(* its outcome up to the next GET (or up to the function's return).        *)
(*                                                                         *)
(* Source layout: lines 455-474 (fetch_tvmaze), 510-519 (fetch_wikidata)   *)
(* and 618-619 (main) are mis-indented in the source.  The model reads     *)
(* each `try` as closed by the `except` that follows it in the text, and   *)
(* nests the statements in between by their indentation relative to each   *)
(* other; so line 470 (all_shows.extend) is inside the `for show` loop of  *)
(* line 456.                                                               *)
(***************************************************************************)
EXTENDS Integers, Sequences, FiniteSets, TLC

\* Python's None, for string-valued fields
None == "None"

\* A JSON array or object where a string is expected: truthy, not hashable
Unhashable == "<unhashable>"

Min(a, b) == IF a < b THEN a ELSE b

\* dict.get(k, default) on a dict modelled as a function with a finite domain
Get(d, k, default) == IF k \in DOMAIN d THEN d[k] ELSE default

\* ------------------------------------------------------------------------
\* Bounds of the model
\* ------------------------------------------------------------------------
\* categories walked per TMDb fetcher (the source walks 6 and 5)
MaxCategories == 2
\* pages walked per category / per TVMaze run (the source walks 10 and 20)
MaxPages == 2
\* raw items on one listing page, bindings in one Wikidata answer
MaxItems == 2
\* video descriptors in one videos answer
MaxVideos == 2
\* the largest page number a cursor is set to
MaxCursor == 2

\* ------------------------------------------------------------------------
\* Program constants
\* ------------------------------------------------------------------------
PAGES_PER_CATEGORY == 10
PAGES_TO_FETCH == 20
ListingAttempts == 3
EnrichAttempts == 2
WikidataAttempts == 5
MaxTrailers == 2
MaxCast == 10
ListingDelay == 5
EnrichDelay == 3

MovieCategories ==
  <<"trending", "popular", "top_rated", "now_playing", "upcoming", "latest">>
TvCategories ==
  <<"trending", "popular", "top_rated", "on_the_air", "airing_today">>

\* ------------------------------------------------------------------------
\* Trailer selection (trailer_priority, sorted(..., reverse=True), the walk)
\* ------------------------------------------------------------------------
\* Strings that are compared with < are sequences of character codes.
RECURSIVE LexLess(_, _)
LexLess(s, t) ==
  IF t = <<>> THEN FALSE
  ELSE IF s = <<>> THEN TRUE
  ELSE IF Head(s) # Head(t) THEN Head(s) < Head(t)
  ELSE LexLess(Tail(s), Tail(t))

\* (v.get("name") or "").lower() contains "official trailer"
NameBonus(name) ==
  IF name \in {"Official Trailer", "FILM - OFFICIAL TRAILER [HD]"} THEN 1 ELSE 0

TypeRank(type_val) ==
  CASE type_val = "Trailer" -> 3
    [] type_val = "Teaser" -> 2
    [] type_val = "Clip" -> 1
    [] OTHER -> 0

trailer_priority(v) ==
  << IF v.site = "YouTube" THEN 1 ELSE 0,
     IF v.official THEN 1 ELSE 0,
     NameBonus(v.name),
     TypeRank(v.type),
     v.published_at >>

\* Python's tuple order on the keys: the four integers, then the date string
KeyLess(a, b) ==
  \/ a[1] < b[1]
  \/ a[1] = b[1] /\ a[2] < b[2]
  \/ a[1] = b[1] /\ a[2] = b[2] /\ a[3] < b[3]
  \/ a[1] = b[1] /\ a[2] = b[2] /\ a[3] = b[3] /\ a[4] < b[4]
  \/ a[1] = b[1] /\ a[2] = b[2] /\ a[3] = b[3] /\ a[4] = b[4] /\ LexLess(a[5], b[5])

\* x goes behind every element whose key is not less than its own: the sort
\* is descending and keeps the input order of equal keys (sorted is stable,
\* also with reverse=True).
RECURSIVE InsertDesc(_, _)
InsertDesc(x, s) ==
  IF s = <<>> THEN <<x>>
  ELSE IF KeyLess(trailer_priority(Head(s)), trailer_priority(x))
       THEN <<x>> \o s
       ELSE <<Head(s)>> \o InsertDesc(x, Tail(s))

RECURSIVE SortFrom(_, _, _)
SortFrom(videos, i, acc) ==
  IF i > Len(videos) THEN acc
  ELSE SortFrom(videos, i + 1, InsertDesc(videos[i], acc))

sorted_videos(videos) == SortFrom(videos, 1, <<>>)

\* lines 208-212: the playable URL of a descriptor, None when it has none
VideoUrl(v) ==
  IF v.site = "YouTube" /\ v.key # None THEN "https://www.youtube.com/watch?v=" \o v.key
  ELSE IF v.url # None THEN v.url
  ELSE None

InSeq(x, s) == \E i \in 1..Len(s) : s[i] = x

\* lines 206-218: the walk over the sorted descriptors.  `seen` is fresh for
\* each walk, `trailers` is the list the caller holds.  `url in seen` raises
\* TypeError for an unhashable url.
RECURSIVE Walk(_, _, _, _)
Walk(sv, i, seen, trailers) ==
  IF i > Len(sv) THEN [trailers |-> trailers, raised |-> FALSE]
  ELSE LET url == VideoUrl(sv[i]) IN
       IF url = None THEN Walk(sv, i + 1, seen, trailers)
       ELSE IF url = Unhashable THEN [trailers |-> trailers, raised |-> TRUE]
       ELSE IF url \in seen THEN Walk(sv, i + 1, seen, trailers)
       ELSE IF Len(trailers) + 1 >= MaxTrailers
            THEN [trailers |-> Append(trailers, url), raised |-> FALSE]
            ELSE Walk(sv, i + 1, seen \cup {url}, Append(trailers, url))

SelectTrailers(videos, trailers) == Walk(sorted_videos(videos), 1, {}, trailers)


\* ------------------------------------------------------------------------
\* JSON values
\* ------------------------------------------------------------------------
\* A JSON object is a function on its keys; {} and None are the function
\* with the empty domain (both falsy).  A JSON value that is not an object
\* where the code expects one (calling .get on it raises AttributeError) is
\* the one-key function NotDict.  A response body that is a JSON array is
\* the function [array |-> its elements].
EmptyDict == <<>>
NotDict == [notdict |-> TRUE]
IsDict(d) == "notdict" \notin DOMAIN d
Truthy(d) == DOMAIN d # {}

\* Strings the code slices are sequences of characters.
Date2024 == <<"2", "0", "2", "4", "-", "0", "3", "-", "1", "5">>
NA == <<"N", "/", "A">>

\* lines 127, 309, 458: date[:4] if date else "N/A"
Year(date) == IF date = <<>> THEN NA ELSE SubSeq(date, 1, Min(4, Len(date)))

\* the body TMDb sends with a 404
ErrorBody == [success |-> FALSE, status_code |-> 34]

GoodDetails ==
  [ genres |-> << [name |-> "Drama"] >>,
    production_countries |-> << [iso_3166_1 |-> "GB"] >>,
    origin_country |-> << "GB" >>,
    created_by |-> << [name |-> "Creator"] >> ]

\* a field that may be absent: <<>>, or <<its value>>
Opt(S) == {<<>>} \cup {<<x>> : x \in S}

Countries(codes) == [i \in 1..Len(codes) |-> [iso_3166_1 |-> codes[i]]]

\* details of a movie: its production countries, budget and revenue
Priced(pcs, b, r) ==
  [k \in {"genres"} \cup (IF pcs # <<>> THEN {"production_countries"} ELSE {})
          \cup (IF b # <<>> THEN {"budget"} ELSE {})
          \cup (IF r # <<>> THEN {"revenue"} ELSE {}) |->
     CASE k = "genres" -> << [name |-> "Drama"] >>
       [] k = "production_countries" -> Countries(pcs[1])
       [] k = "budget" -> b[1]
       [] OTHER -> r[1]]

PricedDetails ==
  { Priced(pcs, b, r) :
      pcs \in Opt({<<>>, <<"US">>, <<"GB", "US">>, <<"FR">>, <<"JP", "IN">>}),
      b \in Opt({0, 7, 1000, 999999, 1234567, 5000000}),
      r \in Opt({0, 1000000}) }

GoodCredits ==
  [ cast |-> << [name |-> "Actor", character |-> "Hero", profile_path |-> None] >>,
    crew |-> << [name |-> "Dir", job |-> "Director"],
                [name |-> "Scr", job |-> "Screenplay"],
                [name |-> "Ed", job |-> "Editor"] >> ]

\* line 163 / 342
DefaultCredits == [cast |-> <<>>, crew |-> <<>>]

Fetchers == {"fetch_tmdb", "fetch_tmdb_tv", "fetch_tvmaze", "fetch_wikidata"}
IsTmdb(fn) == fn \in {"fetch_tmdb", "fetch_tmdb_tv"}

\* the i-th raw item of a listing page
RawItem(fn, i) ==
  CASE fn = "fetch_tmdb" -> [id |-> i, title |-> "Title", release_date |-> Date2024]
    [] fn = "fetch_tmdb_tv" -> [id |-> i, name |-> "Title", first_air_date |-> Date2024]
    [] OTHER -> [id |-> i, name |-> "Title", premiered |-> Date2024, genres |-> <<"Drama">>]

Binding(i) == [movieLabel |-> [value |-> "Film"], poster |-> [value |-> "poster"]]

\* the same without the field the title is read from
Without(d, keys) == [k \in DOMAIN d \ keys |-> d[k]]
UntitledItem(fn, i) == Without(RawItem(fn, i), {"title", "name"})
UntitledBinding(i) == Without(Binding(i), {"movieLabel"})

\* video descriptors
Vid(site, key, url, official, name, type, published_at) ==
  [ site |-> site, key |-> key, url |-> url, official |-> official,
    name |-> name, type |-> type, published_at |-> published_at ]

D1 == <<2, 0, 2, 3>>
D2 == <<2, 0, 2, 4>>

VOfficial == Vid("YouTube", "a", None, TRUE, "Official Trailer", "Trailer", D2)
VOlder == Vid("YouTube", "b", None, TRUE, "Official Trailer", "Trailer", D1)
VFan == Vid("YouTube", "c", None, FALSE, "Fan Cut", "Trailer", D1)
VFanTwin == Vid("YouTube", "d", None, FALSE, "Fan Cut", "Trailer", D1)
VClip == Vid("Vimeo", None, "https://vimeo.com/u", TRUE, "Scene", "Clip", D2)
VTeaser == Vid("YouTube", "a", None, TRUE, "Teaser", "Teaser", D1)
VNoKey == Vid("YouTube", None, None, TRUE, "Official Trailer", "Trailer", D2)
VKeyOnly == Vid("Vimeo", "k", None, TRUE, "Official Trailer", "Trailer", D2)
VUrlOnly == Vid("YouTube", None, "https://vimeo.com/u", FALSE, "Scene", "Featurette", D1)
VBare == Vid(None, None, "https://example.org/v", FALSE, None, None, <<>>)
VBadUrl == Vid("Vimeo", None, Unhashable, FALSE, "Scene", "Clip", D1)

VideoUniverse ==
  { VOfficial, VOlder, VFan, VFanTwin, VClip, VTeaser, VNoKey, VKeyOnly,
    VUrlOnly, VBare }

SeqsUpTo(S, n) == UNION { [1..k -> S] : k \in 0..n }

\* ------------------------------------------------------------------------
\* Incremental state (lines 45-70).  The state is a dict namespace -> key ->
\* {"next_page": n}; state.json holds its JSON text.
\* ------------------------------------------------------------------------
\* line 62: default_start
DefaultStart == 1

\* line 63
get_start_page(st, namespace, key, default_start) ==
  LET spaces == IF Truthy(st) THEN st ELSE EmptyDict
      keys == Get(spaces, namespace, EmptyDict)
      entry == Get(IF Truthy(keys) THEN keys ELSE EmptyDict, key, EmptyDict)
  IN Get(entry, "next_page", default_start)

\* d[k] = v on a dict
Put(d, k, v) == [x \in DOMAIN d \cup {k} |-> IF x = k THEN v ELSE d[x]]

\* variant: the namespace is rebuilt with the one key
SetNextPageFreshNamespace(st, namespace, key, next_page) ==
  Put(st, namespace, Put(EmptyDict, key, Put(EmptyDict, "next_page", next_page)))
\* lines 65-70: the state after set_next_page
set_next_page(st, namespace, key, next_page) ==
  LET keys == Get(st, namespace, EmptyDict)
      entry == Get(keys, key, EmptyDict)
  IN Put(st, namespace, Put(keys, key, Put(entry, "next_page", next_page)))

\* The JSON text of an integer: its sign and its decimal digits.
RECURSIVE Digits(_)
Digits(n) == IF n < 10 THEN <<n>> ELSE Append(Digits(n \div 10), n % 10)
IntText(n) == [neg |-> n < 0, digits |-> Digits(IF n < 0 THEN -n ELSE n)]

RECURSIVE DigitsValue(_)
DigitsValue(ds) ==
  IF ds = <<>> THEN 0
  ELSE DigitsValue(SubSeq(ds, 1, Len(ds) - 1)) * 10 + ds[Len(ds)]
\* variant: the sign of a number is not read
ParseIntUnsigned(t) == DigitsValue(t.digits)
ParseInt(t) == IF t.neg THEN -DigitsValue(t.digits) ELSE DigitsValue(t.digits)

\* The JSON text of an object: its members, name and text of the value.
json_dump(st) ==
  { <<ns, { <<k, { <<f, IntText(st[ns][k][f])>> : f \in DOMAIN st[ns][k] }>> :
              k \in DOMAIN st[ns] }>> : ns \in DOMAIN st }

Member(members, name) == (CHOOSE m \in members : m[1] = name)[2]
MemberNames(members) == {m[1] : m \in members}

json_load(text) ==
  [ns \in MemberNames(text) |->
     [k \in MemberNames(Member(text, ns)) |->
        [f \in MemberNames(Member(Member(text, ns), k)) |->
           ParseInt(Member(Member(Member(text, ns), k), f))]]]

\* state.json: absent, holding a JSON text, or holding something else
MissingFile == [kind |-> "missing", text |-> {}]
CorruptFile == [kind |-> "corrupt", text |-> {}]
JsonFile(text) == [kind |-> "json", text |-> text]

\* what a function hands on when an exception leaves it
Uncaught == [uncaught |-> TRUE]

\* variant: load_state without the handler of line 52
LoadStateUnguarded(file) ==
  IF file.kind = "json" THEN json_load(file.text) ELSE Uncaught
\* lines 48-53
load_state(file) == IF file.kind = "json" THEN json_load(file.text) ELSE EmptyDict

\* lines 55-60: what state.json may hold after save_state.  The file is
\* opened for writing (it is emptied) and the text is written; open may
\* fail, and the write may fail after the file was emptied.
save_state(st, file) == {JsonFile(json_dump(st)), file, CorruptFile}

\* the namespaces and keys of the states explored
Namespaces == {"fetch_tmdb", "fetch_tvmaze"}
Keys == {"trending", "popular"}
Cursors == 1..MaxCursor

\* every key of every namespace at page n
AllCursors(n) == [ns \in Namespaces |-> [k \in Keys |-> [next_page |-> n]]]

\* ------------------------------------------------------------------------
\* The environment: which providers answer, how much they return, and which
\* calls may fail.  One run explores one of these classes of provider
\* behaviour; a provider that is not up refuses every connection.
\* ------------------------------------------------------------------------
Env(up, cats, pages, items, enrich, vids, titles) ==
  [up |-> up, cats |-> cats, pages |-> pages, items |-> items,
   enrich |-> enrich, videos |-> vids, titles |-> titles]

Environments ==
  \* many pages of one provider, listing calls may fail
  { Env({p}, MaxCategories, MaxPages, 1, "reliable", "fixed", "all") :
      p \in {"fetch_tmdb", "fetch_tmdb_tv", "fetch_tvmaze"} }
  \* many items on one page, the listing, details and credits calls may fail
  \cup { Env({p}, 1, 1, MaxItems, "flaky", "fixed", "all") : p \in Fetchers }
  \* one item, every list of video descriptors
  \cup { Env({p}, 1, 1, 1, "reliable", "rich", "all") :
           p \in {"fetch_tmdb", "fetch_tmdb_tv"} }
  \* one movie, every production country, budget and revenue
  \cup { Env({"fetch_tmdb"}, 1, 1, 1, "priced", "fixed", "all") }
  \* one item, whose date may be absent, empty or short
  \cup { Env({p}, 1, 1, 1, "reliable", "fixed", "dates") :
           p \in {"fetch_tmdb", "fetch_tmdb_tv", "fetch_tvmaze"} }
  \* one item, which may lack its title
  \cup { Env({p}, 1, 1, 1, "reliable", "fixed", "some") : p \in Fetchers }
  \* every provider up, every call may fail
  \cup { Env(Fetchers, 1, 1, 1, "flaky", "basic", "all") }

VARIABLES
  env,
  pc, stage, cat, page, idx, attempt,
  results, details, credits, videos, trailers,
  page_items, category_items, all_items,
  tmdb_movies, tmdb_tv, tvmaze_shows, wikidata_movies,
  output, written,
  state, state_file,
  lastCall, outcome, gets, wait, resp

ctrl == <<pc, stage, cat, page, idx, attempt>>
locals == <<results, details, credits, videos, trailers>>
accs == <<page_items, category_items, all_items>>
lists == <<tmdb_movies, tmdb_tv, tvmaze_shows, wikidata_movies>>
doc == <<output, written>>
persisted == <<state, state_file>>
ghost == <<lastCall, outcome, gets, wait, resp>>
vars == <<env, ctrl, locals, accs, lists, doc, persisted, ghost>>

\* ------------------------------------------------------------------------
\* Responses of one GET
\* ------------------------------------------------------------------------
Raised(exc) == [exc |-> exc, status |-> 0, json_ok |-> FALSE, body |-> EmptyDict]
Http(status, body) == [exc |-> "none", status |-> status, json_ok |-> TRUE, body |-> body]
InvalidJson(status) == [exc |-> "none", status |-> status, json_ok |-> FALSE, body |-> EmptyDict]

NetworkErrors == {Raised("Timeout"), Raised("ConnectionError")}
Refused == {Raised("ConnectionError")}

\* lists of raw items: position i holds the i-th item or something that is
\* not a JSON object
ItemShapes ==
  CASE env.titles = "some" -> {"item", "untitled", "junk"}
    [] env.titles = "dates" -> {"item", "undated", "blankdate", "shortdate"}
    [] OTHER -> {"item", "junk"}

\* the field the year is read from (lines 126, 308, 457)
DateField(fn) ==
  CASE fn = "fetch_tmdb" -> "release_date"
    [] fn = "fetch_tmdb_tv" -> "first_air_date"
    [] OTHER -> "premiered"

\* a date string of fewer than 4 characters
ShortDate == <<"2", "4">>

\* the i-th raw item without its date, and with another date string
UndatedItem(fn, i) == Without(RawItem(fn, i), {DateField(fn)})
DatedItem(fn, i, date) == Put(RawItem(fn, i), DateField(fn), date)

RawLists(fn) ==
  { [i \in 1..Len(shape) |->
       CASE shape[i] = "item" -> RawItem(fn, i)
         [] shape[i] = "untitled" -> UntitledItem(fn, i)
         [] shape[i] = "undated" -> UndatedItem(fn, i)
         [] shape[i] = "blankdate" -> DatedItem(fn, i, <<>>)
         [] shape[i] = "shortdate" -> DatedItem(fn, i, ShortDate)
         [] OTHER -> NotDict] :
      shape \in SeqsUpTo(ItemShapes, env.items) }

ListingResponses ==
  IF pc \notin env.up THEN Refused
  ELSE NetworkErrors \cup {Http(500, ErrorBody), InvalidJson(200)}
       \cup { Http(200, [results |-> l]) : l \in RawLists(pc) }

DetailsResponses ==
  IF pc \notin env.up THEN Refused
  ELSE IF env.enrich = "reliable" THEN {Http(200, GoodDetails)}
  ELSE IF env.enrich = "priced" THEN { Http(200, d) : d \in PricedDetails }
  ELSE NetworkErrors
       \cup {Http(200, GoodDetails), Http(404, ErrorBody), Http(200, EmptyDict),
             Http(200, NotDict), InvalidJson(200)}

CreditsResponses ==
  IF pc \notin env.up THEN Refused
  ELSE IF env.enrich # "flaky" THEN {Http(200, GoodCredits)}
  ELSE NetworkErrors \cup {Http(200, GoodCredits), Http(404, ErrorBody), InvalidJson(200)}

VideoLists ==
  CASE env.videos = "fixed" -> { <<VOfficial>> }
    [] env.videos = "basic" -> { <<>>, <<VOfficial>>, <<VOfficial, VBadUrl>> }
    [] OTHER -> SeqsUpTo(VideoUniverse, MaxVideos)

VideosResponses ==
  IF pc \notin env.up THEN Refused
  ELSE IF env.videos = "basic"
  THEN NetworkErrors \cup {Http(404, ErrorBody)}
       \cup { Http(200, [results |-> l]) : l \in VideoLists }
  ELSE { Http(200, [results |-> l]) : l \in VideoLists }

TvmazeResponses ==
  IF pc \notin env.up THEN Refused
  ELSE NetworkErrors \cup {Http(500, EmptyDict), InvalidJson(200)}
       \cup { Http(200, [array |-> l]) : l \in RawLists(pc) }

BindingLists ==
  { [i \in 1..Len(shape) |->
       CASE shape[i] = "item" -> Binding(i)
         [] shape[i] = "untitled" -> UntitledBinding(i)
         [] OTHER -> NotDict] :
      shape \in SeqsUpTo(ItemShapes, env.items) }

WikidataResponses ==
  IF pc \notin env.up THEN Refused
  ELSE NetworkErrors \cup {Http(500, EmptyDict), InvalidJson(200)}
       \cup { Http(200, [results |-> [bindings |-> l]]) : l \in BindingLists }

\* ------------------------------------------------------------------------
\* Loop bounds and control
\* ------------------------------------------------------------------------
Categories(fn) == IF fn = "fetch_tmdb" THEN MovieCategories ELSE TvCategories
NumCats(fn) == Min(Len(Categories(fn)), env.cats)
NumPages(fn) ==
  Min(IF fn = "fetch_tvmaze" THEN PAGES_TO_FETCH ELSE PAGES_PER_CATEGORY, env.pages)

\* One pass of `for attempt in range(maxAttempts)`: break on success, next
\* attempt after a failure, the loop's end after the last failure.
\* variant: a loop without the `break`, every attempt is made
RetryNoBreak(a, maxAttempts, ok) ==
  IF a + 1 < maxAttempts THEN "failed"
  ELSE IF ok THEN "success"
  ELSE "exhausted"
\* variant: a loop with one attempt more than its bound
RetryOnceMore(a, maxAttempts, ok) ==
  IF ok THEN "success"
  ELSE IF a + 1 < maxAttempts + 1 THEN "failed"
  ELSE "exhausted"
RetryStep(a, maxAttempts, ok) ==
  IF ok THEN "success"
  ELSE IF a + 1 < maxAttempts THEN "failed"
  ELSE "exhausted"

\* The except clause that catches an exception raised at a site:
\*   "request": the GET and what shares its try (the attempt's handler)
\*   "page":    the page body outside the item's try
\*   "item":    the item body outside the attempts' tries
\* variant: fetch_tvmaze without the handler of line 473
HandlerTvmazeOpen(fn, site) ==
  CASE site = "request" -> "attempt"
    [] site = "page" /\ IsTmdb(fn) -> "page"
    [] site = "item" /\ IsTmdb(fn) -> "item"
    [] OTHER -> "none"
Handler(fn, site) ==
  CASE site = "request" -> "attempt"
    [] site = "page" /\ fn # "fetch_wikidata" -> "page"
    [] site = "item" /\ IsTmdb(fn) -> "item"
    [] OTHER -> "none"

NoCall == <<"none", 0, 0, 0, "none">>
ThisCall == <<pc, cat, page, idx, stage>>
NoResp == [exc |-> "none", status |-> 0, json_ok |-> FALSE, body |-> EmptyDict]

\* bookkeeping of one GET: which call it belongs to, how the attempt ended,
\* how many GETs the call has issued, the sleep that follows, the response
Note(r, o, w) ==
  /\ resp' = r
  /\ lastCall' = ThisCall
  /\ outcome' = o
  /\ gets' = IF lastCall = ThisCall THEN gets + 1 ELSE 1
  /\ wait' = w

NoNote ==
  /\ lastCall' = NoCall
  /\ outcome' = "none"
  /\ gets' = 0
  /\ wait' = 0
  /\ resp' = NoResp

NextFn(fn) ==
  CASE fn = "fetch_tmdb" -> "fetch_tmdb_tv"
    [] fn = "fetch_tmdb_tv" -> "fetch_tvmaze"
    [] fn = "fetch_tvmaze" -> "fetch_wikidata"
    [] OTHER -> "combine"

FirstStage(fn) ==
  CASE fn = "fetch_wikidata" -> "query"
    [] fn = "combine" -> "none"
    [] OTHER -> "page"

\* an exception no handler catches: the traceback ends the process
Crash ==
  /\ pc' = "crashed"
  /\ UNCHANGED <<stage, cat, page, idx, attempt, locals, accs, lists>>

\* `return items` and main's assignment of the result (lines 561-579)
Return(items) ==
  /\ pc' = NextFn(pc)
  /\ stage' = FirstStage(NextFn(pc))
  /\ cat' = 1 /\ page' = 1 /\ idx' = 0 /\ attempt' = 0
  /\ results' = <<>> /\ details' = EmptyDict /\ credits' = EmptyDict
  /\ videos' = <<>> /\ trailers' = <<>>
  /\ page_items' = <<>> /\ category_items' = <<>> /\ all_items' = <<>>
  /\ tmdb_movies' = IF pc = "fetch_tmdb" THEN items ELSE tmdb_movies
  /\ tmdb_tv' = IF pc = "fetch_tmdb_tv" THEN items ELSE tmdb_tv
  /\ tvmaze_shows' = IF pc = "fetch_tvmaze" THEN items ELSE tvmaze_shows
  /\ wikidata_movies' = IF pc = "fetch_wikidata" THEN items ELSE wikidata_movies

\* The end of one pass of the page loop of a TMDb fetcher, citems being
\* category_movies then: the next page, the next category (line 263), or
\* the return (line 266).
AbortCategory(citems) ==
  IF cat < NumCats(pc)
  THEN /\ cat' = cat + 1 /\ page' = 1
       /\ stage' = "page" /\ idx' = 0 /\ attempt' = 0
       /\ results' = <<>> /\ details' = EmptyDict /\ credits' = EmptyDict
       /\ videos' = <<>> /\ trailers' = <<>>
       /\ page_items' = <<>> /\ category_items' = <<>>
       /\ all_items' = all_items \o citems
       /\ UNCHANGED <<pc, lists>>
  ELSE Return(all_items \o citems)
NextPage(citems) ==
  IF page < NumPages(pc)
  THEN /\ page' = page + 1
       /\ stage' = "page" /\ idx' = 0 /\ attempt' = 0
       /\ results' = <<>> /\ details' = EmptyDict /\ credits' = EmptyDict
       /\ videos' = <<>> /\ trailers' = <<>>
       /\ page_items' = <<>> /\ category_items' = citems
       /\ UNCHANGED <<pc, cat, all_items, lists>>
  ELSE IF cat < NumCats(pc)
  THEN /\ cat' = cat + 1 /\ page' = 1
       /\ stage' = "page" /\ idx' = 0 /\ attempt' = 0
       /\ results' = <<>> /\ details' = EmptyDict /\ credits' = EmptyDict
       /\ videos' = <<>> /\ trailers' = <<>>
       /\ page_items' = <<>> /\ category_items' = <<>>
       /\ all_items' = all_items \o citems
       /\ UNCHANGED <<pc, lists>>
  ELSE Return(all_items \o citems)

\* An exception raised in the page body outside the item's try: handler of
\* line 260 / 417, page_movies is dropped.
RaiseInPage ==
  IF Handler(pc, "page") = "page" THEN NextPage(category_items) ELSE Crash

\* Lines 125-132 / 305-313 for the i-th raw item, page_movies being pitems;
\* past the last item, lines 257 / 415.
StartItem(rs, i, pitems) ==
  IF i > Len(rs) THEN NextPage(category_items \o pitems)
  ELSE IF ~IsDict(rs[i]) THEN RaiseInPage
  ELSE /\ stage' = "details" /\ idx' = i /\ attempt' = 0
       /\ results' = rs /\ page_items' = pitems
       /\ details' = EmptyDict /\ credits' = EmptyDict
       /\ videos' = <<>> /\ trailers' = <<>>
       /\ UNCHANGED <<pc, cat, page, category_items, all_items, lists>>

\* ------------------------------------------------------------------------
\* Normalization
\* ------------------------------------------------------------------------
Take(s, n) == SubSeq(s, 1, Min(n, Len(s)))

RECURSIVE Filter(_, _)
Filter(s, jobs) ==
  IF s = <<>> THEN <<>>
  ELSE IF Head(s).job \in jobs THEN <<Head(s).name>> \o Filter(Tail(s), jobs)
  ELSE Filter(Tail(s), jobs)

Names(s) == [i \in 1..Len(s) |-> s[i].name]

\* lines 165-172 / 344-351
cast_list(c) ==
  LET top == Take(Get(c, "cast", <<>>), MaxCast) IN
  [i \in 1..Len(top) |->
     [name |-> top[i].name, character |-> top[i].character,
      profile |-> IF top[i].profile_path # None
                  THEN "https://image.tmdb.org/t/p/w300" \o top[i].profile_path
                  ELSE ""]]

\* lines 174-177
directors(c) == Filter(Get(c, "crew", <<>>), {"Director"})
\* lines 179-182
writers(c) == Filter(Get(c, "crew", <<>>), {"Writer", "Screenplay", "Story"})

\* line 226
country_code(d) ==
  LET pcs == Get(d, "production_countries", <<>>) IN
  IF pcs # <<>> THEN pcs[1].iso_3166_1 ELSE "US"

\* lines 392-393
origin_country(d) ==
  LET ocs == Get(d, "origin_country", <<>>) IN
  IF ocs # <<>> THEN ocs[1] ELSE "US"

\* None where the value is a text the code builds, none of which is empty
NoText == <<>>

\* lines 76-78; the symbols other than "$" are written by their names
CURRENCY_MAP ==
  [code \in {"US", "GB", "EU", "IN", "JP"} |->
     CASE code = "US" -> "$"
       [] code = "GB" -> "pound"
       [] code = "EU" -> "euro"
       [] code = "IN" -> "rupee"
       [] OTHER -> "yen"]

\* line 227
currency_symbol(code) == Get(CURRENCY_MAP, code, "$")

DigitChars == <<"0", "1", "2", "3", "4", "5", "6", "7", "8", "9">>

\* the decimal digits of a number, a comma before each full group of three
RECURSIVE Grouped(_)
Grouped(ds) ==
  IF Len(ds) <= 3 THEN [i \in 1..Len(ds) |-> DigitChars[ds[i] + 1]]
  ELSE Grouped(SubSeq(ds, 1, Len(ds) - 3)) \o <<",">>
       \o [i \in 1..3 |-> DigitChars[ds[Len(ds) - 3 + i] + 1]]

\* variant: the format `{n}`, without the `,` option
ThousandsPlain(n) ==
  LET ds == Digits(IF n < 0 THEN -n ELSE n)
      text == [i \in 1..Len(ds) |-> DigitChars[ds[i] + 1]]
  IN IF n < 0 THEN <<"-">> \o text ELSE text
\* lines 240-241: the format `{n:,}` of an integer
Thousands(n) ==
  IF n < 0 THEN <<"-">> \o Grouped(Digits(-n)) ELSE Grouped(Digits(n))

\* lines 240-241: the budget or the revenue of a record
Money(d, field) ==
  IF Get(d, field, 0) # 0
  THEN <<currency_symbol(country_code(d))>> \o Thousands(Get(d, field, 0))
  ELSE NoText

\* lines 232-252
MovieRecord(movie, d, c, t, category) ==
  [ id |-> Get(movie, "id", None),
    title |-> Get(movie, "title", None),
    year |-> Year(Get(movie, "release_date", <<>>)),
    genres |-> Names(Get(d, "genres", <<>>)),
    budget |-> Money(d, "budget"),
    revenue |-> Money(d, "revenue"),
    directors |-> directors(c),
    writers |-> writers(c),
    cast |-> cast_list(c),
    trailers |-> t,
    origin_country |-> country_code(d),
    category |-> category,
    source |-> "TMDb" ]

\* lines 395-411
TvRecord(show, d, c, t, category) ==
  [ id |-> Get(show, "id", None),
    title |-> Get(show, "name", None),
    year |-> Year(Get(show, "first_air_date", <<>>)),
    genres |-> Names(Get(d, "genres", <<>>)),
    creators |-> Names(Get(d, "created_by", <<>>)),
    cast |-> cast_list(c),
    trailers |-> t,
    origin_country |-> origin_country(d),
    category |-> category,
    type |-> "tv",
    source |-> "TMDb" ]

\* lines 459-468
TvmazeRecord(show) ==
  [ id |-> Get(show, "id", None),
    title |-> Get(show, "name", None),
    year |-> Year(Get(show, "premiered", <<>>)),
    genres |-> Get(show, "genres", <<>>),
    source |-> "TVMaze" ]

\* lines 512-516
WikidataRecord(item) ==
  [ title |-> Get(Get(item, "movieLabel", EmptyDict), "value", "N/A"),
    poster |-> Get(Get(item, "poster", EmptyDict), "value", ""),
    source |-> "Wikidata" ]

Record(fn, item, d, c, t, category) ==
  IF fn = "fetch_tmdb" THEN MovieRecord(item, d, c, t, category)
  ELSE TvRecord(item, d, c, t, category)

\* ------------------------------------------------------------------------
\* fetch_tmdb and fetch_tmdb_tv
\* ------------------------------------------------------------------------
\* line 110 / 290
PageOk(r) == r.exc = "none" /\ r.status = 200

\* lines 135-139, 152-156: the call returned and its body parsed as JSON
EnrichOk(r) == r.exc = "none" /\ r.json_ok

\* `continue` of line 122 / 302
\* variant: `break` in place of the `continue` of line 122 / 302
ListingExhaustedBreaks == AbortCategory(category_items)
ListingExhausted == NextPage(category_items)

\* lines 107-128 / 287-313: one GET of a listing page
ListingGet ==
  /\ IsTmdb(pc) /\ stage = "page"
  /\ \E r \in ListingResponses :
       LET o == RetryStep(attempt, ListingAttempts, PageOk(r)) IN
       /\ Note(r, o, IF o = "failed" THEN ListingDelay ELSE 0)
       /\ IF o = "failed"
          THEN /\ attempt' = attempt + 1
               /\ UNCHANGED <<pc, stage, cat, page, idx, locals, accs, lists>>
          ELSE IF o = "exhausted" THEN ListingExhausted
          ELSE IF ~r.json_ok \/ ~IsDict(r.body) THEN RaiseInPage
          ELSE StartItem(Get(r.body, "results", <<>>), 1, <<>>)
  /\ UNCHANGED <<env, doc, persisted>>

\* lines 132-146 / 313-326: one GET of the details
DetailsGet ==
  /\ IsTmdb(pc) /\ stage = "details"
  /\ \E r \in DetailsResponses :
       LET o == RetryStep(attempt, EnrichAttempts, EnrichOk(r)) IN
       /\ Note(r, o, IF o = "failed" THEN EnrichDelay ELSE 0)
       /\ IF o = "failed"
          THEN /\ attempt' = attempt + 1
               /\ UNCHANGED <<pc, stage, cat, page, idx, locals, accs, lists>>
          ELSE IF o = "success" /\ Truthy(r.body)
          THEN /\ details' = r.body
               /\ stage' = "credits" /\ attempt' = 0
               /\ UNCHANGED <<pc, cat, page, idx, results, credits, videos,
                              trailers, accs, lists>>
          ELSE \* `if not details: continue`
               /\ details' = IF o = "success" THEN r.body ELSE details
               /\ stage' = "next" /\ attempt' = 0
               /\ UNCHANGED <<pc, cat, page, idx, results, credits, videos,
                              trailers, accs, lists>>
  /\ UNCHANGED <<env, doc, persisted>>

\* lines 162-163 / 341-342, c being `credits` at the end of the attempts
\* variant: `continue` in place of the default credits of line 163 / 342
AfterCreditsSkips(c) ==
  IF Truthy(c)
  THEN /\ credits' = c
       /\ stage' = "videos" /\ attempt' = 0
       /\ UNCHANGED <<pc, cat, page, idx, results, details, videos,
                      trailers, accs, lists>>
  ELSE /\ stage' = "next" /\ attempt' = 0
       /\ UNCHANGED <<pc, cat, page, idx, locals, accs, lists>>
AfterCredits(c) ==
  /\ credits' = IF Truthy(c) THEN c ELSE DefaultCredits
  /\ stage' = "videos" /\ attempt' = 0
  /\ UNCHANGED <<pc, cat, page, idx, results, details, videos,
                 trailers, accs, lists>>

\* lines 149-163 / 329-342: one GET of the credits
CreditsGet ==
  /\ IsTmdb(pc) /\ stage = "credits"
  /\ \E r \in CreditsResponses :
       LET o == RetryStep(attempt, EnrichAttempts, EnrichOk(r)) IN
       /\ Note(r, o, IF o = "failed" THEN EnrichDelay ELSE 0)
       /\ IF o = "failed"
          THEN /\ attempt' = attempt + 1
               /\ UNCHANGED <<pc, stage, cat, page, idx, locals, accs, lists>>
          ELSE AfterCredits(IF o = "success" THEN r.body ELSE EmptyDict)
  /\ UNCHANGED <<env, doc, persisted>>

\* lines 185-223 / 356-389: one GET of the videos, the sort and the walk.
\* `trailers` is set to [] before the attempts, not at each of them.
VideosGet ==
  /\ IsTmdb(pc) /\ stage = "videos"
  /\ \E r \in VideosResponses :
       LET got == EnrichOk(r) /\ IsDict(r.body)
           vs == IF got THEN Get(r.body, "results", <<>>) ELSE <<>>
           sel == SelectTrailers(vs, trailers)
           o == RetryStep(attempt, EnrichAttempts, got /\ ~sel.raised)
       IN
       /\ Note(r, o, IF o = "failed" THEN EnrichDelay ELSE 0)
       /\ videos' = IF got THEN vs ELSE videos
       /\ trailers' = IF got THEN sel.trailers ELSE trailers
       /\ IF o = "failed"
          THEN /\ attempt' = attempt + 1
               /\ UNCHANGED stage
          ELSE /\ attempt' = 0
               /\ stage' = "build"
       /\ UNCHANGED <<pc, cat, page, idx, results, details, credits, accs, lists>>
  /\ UNCHANGED <<env, doc, persisted>>

\* variant: an item whose id already has a record is not appended again
BuildRecordDedup ==
  /\ IsTmdb(pc) /\ stage = "build"
  /\ NoNote
  /\ IF IsDict(details)
     THEN /\ page_items' =
               LET held == all_items \o category_items \o page_items IN
               IF \E i \in 1..Len(held) : held[i].id = Get(results[idx], "id", None)
               THEN page_items
               ELSE Append(page_items,
                           Record(pc, results[idx], details, credits, trailers,
                                  Categories(pc)[cat]))
          /\ stage' = "next"
          /\ UNCHANGED <<pc, cat, page, idx, attempt, locals, category_items,
                         all_items, lists>>
     ELSE /\ stage' = "next"
          /\ UNCHANGED <<pc, cat, page, idx, attempt, locals, accs, lists>>
  /\ UNCHANGED <<env, doc, persisted>>

\* lines 225-255 / 391-413: the record of the item, or the item's handler
BuildRecord ==
  /\ IsTmdb(pc) /\ stage = "build"
  /\ NoNote
  /\ IF IsDict(details)
     THEN /\ page_items' =
               Append(page_items,
                      Record(pc, results[idx], details, credits, trailers,
                             Categories(pc)[cat]))
          /\ stage' = "next"
          /\ UNCHANGED <<pc, cat, page, idx, attempt, locals, category_items,
                         all_items, lists>>
     ELSE IF Handler(pc, "item") = "item"
     THEN /\ stage' = "next"
          /\ UNCHANGED <<pc, cat, page, idx, attempt, locals, accs, lists>>
     ELSE Crash
  /\ UNCHANGED <<env, doc, persisted>>

\* the next pass of `for movie in ...` (line 125 / 305)
NextItem ==
  /\ IsTmdb(pc) /\ stage = "next"
  /\ NoNote
  /\ StartItem(results, idx + 1, page_items)
  /\ UNCHANGED <<env, doc, persisted>>

\* ------------------------------------------------------------------------
\* fetch_tvmaze
\* ------------------------------------------------------------------------
\* lines 455-471: the loop over the shows of one page; all_shows is extended
\* by `shows` once per show (line 470 is inside the loop)
RECURSIVE ShowsLoop(_, _, _, _)
ShowsLoop(l, i, shows, all_shows) ==
  IF i > Len(l) THEN [all_shows |-> all_shows, raised |-> FALSE]
  ELSE IF ~IsDict(l[i]) THEN [all_shows |-> all_shows, raised |-> TRUE]
  ELSE LET shows2 == Append(shows, TvmazeRecord(l[i])) IN
       ShowsLoop(l, i + 1, shows2, all_shows \o shows2)

\* the end of one pass of the page loop of fetch_tvmaze
NextTvmazePage(all_shows) ==
  IF page < NumPages(pc)
  THEN /\ page' = page + 1 /\ attempt' = 0
       /\ all_items' = all_shows
       /\ UNCHANGED <<pc, stage, cat, idx, locals, page_items, category_items, lists>>
  ELSE Return(all_shows)

\* lines 432-474: one GET of a TVMaze page
TvmazeGet ==
  /\ pc = "fetch_tvmaze" /\ stage = "page"
  /\ \E r \in TvmazeResponses :
       LET o == RetryStep(attempt, ListingAttempts, PageOk(r))
           loop == ShowsLoop(Get(r.body, "array", <<>>), 1, <<>>, all_items)
       IN
       /\ Note(r, o, IF o = "failed" THEN ListingDelay ELSE 0)
       /\ IF o = "failed"
          THEN /\ attempt' = attempt + 1
               /\ UNCHANGED <<pc, stage, cat, page, idx, locals, accs, lists>>
          ELSE IF o = "exhausted" THEN NextTvmazePage(all_items)
          ELSE IF r.json_ok /\ ~loop.raised THEN NextTvmazePage(loop.all_shows)
          ELSE IF Handler(pc, "page") # "page" THEN Crash
          ELSE NextTvmazePage(IF r.json_ok THEN loop.all_shows ELSE all_items)
  /\ UNCHANGED <<env, doc, persisted>>

\* ------------------------------------------------------------------------
\* fetch_wikidata
\* ------------------------------------------------------------------------
\* line 507: raise_for_status
StatusOk(status) == ~(status \in 400..599)

\* variant: the wait of line 524 after every kind of failure
WikidataDelayFlat(exc, a) == (a + 1) * 10
\* lines 524, 531, 538
WikidataDelay(exc, a) ==
  CASE exc = "Timeout" -> (a + 1) * 10
    [] exc = "ConnectionError" -> (a + 1) * 8
    [] OTHER -> (a + 1) * 5

\* lines 542-543
\* variant: the error raised again in place of `return []` of line 543
WikidataExhaustedRaises == Crash
WikidataExhausted == Return(<<>>)

\* lines 498-543: one GET of the query
WikidataGet ==
  /\ pc = "fetch_wikidata" /\ stage = "query"
  /\ \E r \in WikidataResponses :
       LET bindings ==
             IF r.json_ok /\ IsDict(r.body)
             THEN Get(Get(r.body, "results", EmptyDict), "bindings", <<>>)
             ELSE <<>>
           ok == /\ r.exc = "none" /\ StatusOk(r.status) /\ r.json_ok
                 /\ \A i \in 1..Len(bindings) : IsDict(bindings[i])
           o == RetryStep(attempt, WikidataAttempts, ok)
       IN
       /\ Note(r, o, IF o = "failed" THEN WikidataDelay(r.exc, attempt) ELSE 0)
       /\ IF o = "failed"
          THEN /\ attempt' = attempt + 1
               /\ UNCHANGED <<pc, stage, cat, page, idx, locals, accs, lists>>
          ELSE IF o = "success"
          THEN Return([i \in 1..Len(bindings) |-> WikidataRecord(bindings[i])])
          ELSE WikidataExhausted
  /\ UNCHANGED <<env, doc, persisted>>

\* ------------------------------------------------------------------------
\* main
\* ------------------------------------------------------------------------
\* variant: `d[category] = 1` in place of the increment of line 590 / 595
CountCategoryAssigns(items, c) == 1
RECURSIVE CountCategory(_, _)
CountCategory(items, c) ==
  IF items = <<>> THEN 0
  ELSE (IF Head(items).category = c THEN 1 ELSE 0) + CountCategory(Tail(items), c)

\* lines 588-595
CategoryCounts(items) ==
  [c \in {items[i].category : i \in 1..Len(items)} |-> CountCategory(items, c)]

\* line 585
\* variant: the TV list left out of line 585
combinedWithoutTv == tmdb_movies \o tvmaze_shows \o wikidata_movies
combined == tmdb_movies \o tmdb_tv \o tvmaze_shows \o wikidata_movies

\* lines 584-615
Combine ==
  /\ pc = "combine"
  /\ UNCHANGED ghost
  /\ output' =
       [ total_entries |-> Len(combined),
         breakdown |-> [ tmdb_movies |-> Len(tmdb_movies),
                         tmdb_tv |-> Len(tmdb_tv),
                         tvmaze_shows |-> Len(tvmaze_shows),
                         wikidata_movies |-> Len(wikidata_movies) ],
         tmdb_categories |-> CategoryCounts(tmdb_movies),
         tmdb_tv_categories |-> CategoryCounts(tmdb_tv),
         movies |-> combined ]
  /\ pc' = "write"
  /\ UNCHANGED <<env, stage, cat, page, idx, attempt, locals, accs, lists, written,
                 persisted>>

\* lines 617-641: both files are written in one try; a failure is printed
WriteOutput ==
  /\ pc = "write"
  /\ NoNote
  /\ \E ok \in BOOLEAN : written' = IF ok THEN "ok" ELSE "failed"
  /\ pc' = "done"
  /\ UNCHANGED <<env, stage, cat, page, idx, attempt, locals, accs, lists, output,
                 persisted>>

NoOutput ==
  [ total_entries |-> 0,
    breakdown |-> [tmdb_movies |-> 0, tmdb_tv |-> 0, tvmaze_shows |-> 0,
                   wikidata_movies |-> 0],
    tmdb_categories |-> <<>>, tmdb_tv_categories |-> <<>>, movies |-> <<>> ]

\* state.json at process start: absent, or left by an earlier run.  main
\* never calls load_state: the run holds no state.
StartFiles ==
  IF env.pages > 1 THEN {MissingFile, JsonFile(json_dump(AllCursors(2)))}
  ELSE {MissingFile}

Init ==
  /\ env \in Environments
  /\ state = EmptyDict /\ state_file \in StartFiles
  /\ pc = "fetch_tmdb" /\ stage = "page"
  /\ cat = 1 /\ page = 1 /\ idx = 0 /\ attempt = 0
  /\ results = <<>> /\ details = EmptyDict /\ credits = EmptyDict
  /\ videos = <<>> /\ trailers = <<>>
  /\ page_items = <<>> /\ category_items = <<>> /\ all_items = <<>>
  /\ tmdb_movies = <<>> /\ tmdb_tv = <<>> /\ tvmaze_shows = <<>>
  /\ wikidata_movies = <<>>
  /\ output = NoOutput /\ written = "none"
  /\ lastCall = NoCall /\ outcome = "none" /\ gets = 0 /\ wait = 0
  /\ resp = NoResp

Next ==
  \/ ListingGet
  \/ DetailsGet
  \/ CreditsGet
  \/ VideosGet
  \/ BuildRecord
  \/ NextItem
  \/ TvmazeGet
  \/ WikidataGet
  \/ Combine
  \/ WriteOutput

Spec == Init /\ [][Next]_vars

\* lines 645-646: main returns and the interpreter exits with status 0; a
\* traceback exits with status 1
ExitStatus == IF pc = "crashed" THEN 1 ELSE 0

\* main is one sequential thread: a step that can be taken is taken
FairSpec == Spec /\ WF_vars(Next)

\* ------------------------------------------------------------------------
\* The incremental-state functions on their own: any caller's sequence of
\* set_next_page, save_state and load_state.  pc names the function that
\* ran last and outcome tells whether its file operation went through.
\* ------------------------------------------------------------------------
StateInit ==
  /\ env = Env({}, 1, 1, 1, "reliable", "fixed", "all")
  /\ pc = "helpers" /\ stage = "none"
  /\ cat = 1 /\ page = 1 /\ idx = 0 /\ attempt = 0
  /\ results = <<>> /\ details = EmptyDict /\ credits = EmptyDict
  /\ videos = <<>> /\ trailers = <<>>
  /\ page_items = <<>> /\ category_items = <<>> /\ all_items = <<>>
  /\ tmdb_movies = <<>> /\ tmdb_tv = <<>> /\ tvmaze_shows = <<>>
  /\ wikidata_movies = <<>>
  /\ output = NoOutput /\ written = "none"
  /\ lastCall = NoCall /\ outcome = "none" /\ gets = 0 /\ wait = 0
  /\ resp = NoResp
  /\ state = EmptyDict
  /\ state_file \in {MissingFile, CorruptFile, JsonFile(json_dump(AllCursors(1)))}

HelperFrame ==
  UNCHANGED <<env, stage, cat, page, idx, attempt, locals, accs, lists, doc,
              lastCall, gets, wait, resp>>

SetNextPage ==
  /\ pc # "crashed"
  /\ \E ns \in Namespaces, k \in Keys, p \in Cursors :
       state' = set_next_page(state, ns, k, p)
  /\ pc' = "set_next_page" /\ outcome' = "success"
  /\ UNCHANGED state_file
  /\ HelperFrame

SaveState ==
  /\ pc # "crashed"
  /\ \E f \in save_state(state, state_file) :
       /\ state_file' = f
       /\ outcome' = IF f = JsonFile(json_dump(state)) THEN "success" ELSE "failed"
  /\ pc' = "save_state"
  /\ UNCHANGED state
  /\ HelperFrame

LoadState ==
  /\ pc # "crashed"
  /\ IF load_state(state_file) = Uncaught
     THEN pc' = "crashed" /\ UNCHANGED state
     ELSE pc' = "load_state" /\ state' = load_state(state_file)
  /\ outcome' = IF state_file.kind = "json" THEN "success" ELSE "failed"
  /\ UNCHANGED state_file
  /\ HelperFrame

StateNext ==
  \/ SetNextPage
  \/ SaveState
  \/ LoadState

StateSpec == StateInit /\ [][StateNext]_vars

\* ------------------------------------------------------------------------
\* Properties
\* ------------------------------------------------------------------------
ListOf(fn) ==
  CASE fn = "fetch_tmdb" -> tmdb_movies
    [] fn = "fetch_tmdb_tv" -> tmdb_tv
    [] fn = "fetch_tvmaze" -> tvmaze_shows
    [] OTHER -> wikidata_movies

\* the records of the pages a fetcher has completed
Kept(fn) == IF pc = fn THEN all_items \o category_items ELSE ListOf(fn)

IsPrefix(s, t) == Len(s) <= Len(t) /\ SubSeq(t, 1, Len(s)) = s

PageFetchers == {"fetch_tmdb", "fetch_tmdb_tv", "fetch_tvmaze"}

MaxAttempts(st) ==
  CASE st = "page" -> ListingAttempts
    [] st = "query" -> WikidataAttempts
    [] OTHER -> EnrichAttempts

BindingsOf(r) ==
  IF r.json_ok /\ IsDict(r.body)
  THEN Get(Get(r.body, "results", EmptyDict), "bindings", <<>>)
  ELSE <<>>

\* a response after which the attempt cannot have failed
CleanResp(call, r) ==
  CASE call[5] = "page" -> r.exc = "none" /\ r.status = 200
    [] call[5] = "query" ->
         /\ r.exc = "none" /\ r.status \in 200..299 /\ r.json_ok
         /\ \A i \in 1..Len(BindingsOf(r)) : IsDict(BindingsOf(r)[i])
    [] call[5] = "videos" ->
         /\ r.exc = "none" /\ r.json_ok /\ IsDict(r.body)
         /\ \A i \in 1..Len(Get(r.body, "results", <<>>)) :
              Get(r.body, "results", <<>>)[i].url # Unhashable
    [] OTHER -> r.exc = "none" /\ r.json_ok

\* what a step that ends the last attempt of a listing page does
C1_Step ==
  \A fn \in PageFetchers :
    /\ IsPrefix(Kept(fn), Kept(fn)')
    /\ ( /\ pc = fn /\ stage = "page" /\ attempt = ListingAttempts - 1
         /\ lastCall' = ThisCall /\ ~(resp'.exc = "none" /\ resp'.status = 200) )
       => /\ Kept(fn)' = Kept(fn)
          /\ IF page < NumPages(fn)
             THEN pc' = fn /\ stage' = "page" /\ cat' = cat /\ page' = page + 1
                  /\ attempt' = 0
             ELSE IF IsTmdb(fn) /\ cat < NumCats(fn)
             THEN pc' = fn /\ stage' = "page" /\ cat' = cat + 1 /\ page' = 1
                  /\ attempt' = 0
             ELSE pc' = NextFn(fn)
\* C1: when the last of the 3 attempts for a listing page fails, the page
\* adds no record, the records of the completed pages stay, and the fetcher
\* goes on to the next page, the next category or its return; no step of a
\* run removes a record of a completed page.
C1_ExhaustedPageSkipped == [][C1_Step]_vars

\* the last page of the first category ended exhausted, the records of an
\* earlier page are held and the fetcher is at the second category
C1_Witness ==
  /\ pc = "fetch_tmdb" /\ cat = 2 /\ page = 1 /\ attempt = 0
  /\ lastCall = <<"fetch_tmdb", 1, NumPages(pc), 0, "page">>
  /\ outcome = "exhausted" /\ gets = ListingAttempts
  /\ all_items # <<>>

\* the state and the step of a retried call
C2_State ==
  /\ lastCall # NoCall => gets \in 1..MaxAttempts(lastCall[5])
  /\ outcome = "failed" => gets < MaxAttempts(lastCall[5])
  /\ outcome = "exhausted" => gets = MaxAttempts(lastCall[5]) /\ pc # "crashed"
  /\ ( /\ lastCall # NoCall /\ gets = MaxAttempts(lastCall[5])
       /\ ~CleanResp(lastCall, resp) /\ outcome # "success" )
     => outcome = "exhausted"
  /\ (outcome = "success" /\ pc = lastCall[1]) =>
       /\ (lastCall[5] = "page" /\ IsTmdb(pc) /\ stage = "details" /\ idx = 1)
            => results = resp.body.results
       /\ (lastCall[5] = "details" /\ stage = "credits") => details = resp.body
       /\ (lastCall[5] = "credits" /\ stage = "videos" /\ Truthy(resp.body))
            => credits = resp.body
       /\ (lastCall[5] = "videos" /\ stage = "build")
            => videos = Get(resp.body, "results", <<>>)
  /\ (outcome = "success" /\ lastCall[5] = "query") =>
       /\ Len(wikidata_movies) = Len(BindingsOf(resp))
       /\ \A i \in 1..Len(wikidata_movies) :
            wikidata_movies[i].poster = BindingsOf(resp)[i].poster.value
C2_Step ==
  (lastCall' = lastCall /\ gets' = gets + 1)
    => /\ outcome = "failed"
       /\ ~CleanResp(lastCall, resp)
\* C2: a call whose attempt N succeeds is not attempted again and its
\* payload is the one the code goes on with; a call issues at most its bound
\* of attempts, and after the last failed one it ends exhausted, nothing
\* being raised.
C2_RetryPolicy == [](C2_State) /\ [][C2_Step]_vars

\* a call succeeded on its last allowed attempt after the earlier ones failed
C2_Witness ==
  /\ outcome = "success" /\ lastCall[5] = "details" /\ gets = EnrichAttempts
  /\ stage = "credits" /\ details = GoodDetails

\* the GETs a call has issued stay within the bound of its call site
C3_Bounded ==
  lastCall # NoCall => gets <= MaxAttempts(lastCall[5])
\* C3: no call issues more GETs than its bound (3 per listing page, 2 per
\* details, credits or videos call, 5 for the Wikidata query), and every run
\* of main comes to its end.
C3_Terminates == [](C3_Bounded) /\ <>(pc = "done")

\* main came to its end in a run where three providers refused every
\* attempt of every call and no page of the fourth gave a record
C3_Witness ==
  /\ pc = "done" /\ env.up = {"fetch_tvmaze"} /\ output.total_entries = 0

\* C4 (as claimed): every failure of a call is retried up to the bound of
\* its call site, and no response with a status outside 2xx is taken as a
\* successful payload.
C4_NonOkNeverAccepted ==
  /\ outcome = "success" => resp.exc = "none" /\ resp.status \in 200..299
  /\ outcome = "exhausted" => gets = MaxAttempts(lastCall[5])

\* the records a fetcher holds, those of the page in progress included
Held(fn) ==
  IF pc = fn THEN all_items \o category_items \o page_items ELSE ListOf(fn)

\* what the last failed attempt of the details and of the credits leads to
C5_Step ==
  \A fn \in {"fetch_tmdb", "fetch_tmdb_tv"} :
    /\ ( /\ pc = fn /\ stage = "details" /\ attempt = EnrichAttempts - 1
         /\ lastCall' = ThisCall /\ ~(resp'.exc = "none" /\ resp'.json_ok) )
       => /\ pc' = fn /\ stage' = "next" /\ idx' = idx
          /\ Held(fn)' = Held(fn)
    /\ (pc = fn /\ stage = "next") => IsPrefix(Held(fn)', Held(fn))
    /\ ( /\ pc = fn /\ stage = "credits" /\ attempt = EnrichAttempts - 1
         /\ lastCall' = ThisCall /\ ~(resp'.exc = "none" /\ resp'.json_ok) )
       => /\ pc' = fn /\ stage' = "videos" /\ idx' = idx
          /\ credits' = [cast |-> <<>>, crew |-> <<>>]
          /\ Held(fn)' = Held(fn)
    /\ ( /\ pc = fn /\ stage = "build" /\ credits = [cast |-> <<>>, crew |-> <<>>]
         /\ IsDict(details) )
       => /\ Len(page_items') = Len(page_items) + 1
          /\ page_items'[Len(page_items')].id = results[idx].id
          /\ page_items'[Len(page_items')].cast = <<>>
          /\ fn = "fetch_tmdb" =>
               /\ page_items'[Len(page_items')].directors = <<>>
               /\ page_items'[Len(page_items')].writers = <<>>
\* C5: after the second failed attempt of the details the item is left
\* without a record; after the second failed attempt of the credits the item
\* goes on with empty credits, and the record then built for it has an empty
\* cast and (for a movie) empty directors and writers.
C5_DetailsSkipCreditsDegrade == [][C5_Step]_vars

\* a record with an empty cast was built for an item whose credits failed
\* twice, next to the record of an item whose credits arrived
C5_Witness ==
  /\ pc = "fetch_tmdb" /\ stage = "next" /\ Len(page_items) = 2
  /\ page_items[1].cast # <<>>
  /\ page_items[2].cast = <<>> /\ page_items[2].directors = <<>>
  /\ credits = DefaultCredits

\* the run after the query has used up its attempts
C6_State ==
  /\ pc # "crashed"
  /\ ( /\ pc \in {"combine", "write"} /\ lastCall[5] = "query"
       /\ gets = WikidataAttempts /\ ~CleanResp(lastCall, resp) )
     => /\ wikidata_movies = <<>>
        /\ pc = "write" =>
             /\ output.breakdown.wikidata_movies = 0
             /\ output.movies = tmdb_movies \o tmdb_tv \o tvmaze_shows
C6_Step == pc = "combine" => pc' = "write"
\* C6: when the Wikidata query failed 5 times fetch_wikidata returns the
\* empty list and main builds the document from the other providers'
\* records, with breakdown.wikidata_movies = 0; no run is aborted, whatever
\* lists the providers return.
C6_WikidataDown == [](C6_State) /\ [][C6_Step]_vars

\* the document was built after 5 failed attempts of the query, from the
\* records of the other three providers
C6_Witness ==
  /\ pc = "write" /\ lastCall[5] = "query" /\ outcome = "exhausted"
  /\ output.breakdown.wikidata_movies = 0
  /\ output.breakdown.tmdb_movies > 0 /\ output.breakdown.tmdb_tv > 0
  /\ output.breakdown.tvmaze_shows > 0

\* C7: no exception leaves a fetcher; whatever the providers answer, the
\* process is never ended by an uncaught exception.
C7_NoEscape == pc # "crashed"

\* fetch_tvmaze returned to main after a page answered 200 with a body that
\* is not JSON
C7_Witness ==
  /\ pc = "fetch_wikidata" /\ lastCall[1] = "fetch_tvmaze"
  /\ resp.exc = "none" /\ resp.status = 200 /\ ~resp.json_ok

\* the TMDb records held anywhere
TmdbRecords ==
  LET held == (IF IsTmdb(pc) THEN all_items \o category_items \o page_items
               ELSE <<>>) \o tmdb_movies \o tmdb_tv
  IN {held[i] : i \in 1..Len(held)}

NoDuplicates(s) == \A i, j \in 1..Len(s) : i # j => s[i] # s[j]

\* C8 (as claimed): the trailers of every TMDb record are at most 2 URLs,
\* none of them twice.
C8_TrailersCappedDistinct ==
  \A r \in TmdbRecords : Len(r.trailers) <= 2 /\ NoDuplicates(r.trailers)

\* the claimed order of the descriptors of a list: the positions 1..n
\* arranged so that no descriptor stands before one with a greater key, and
\* descriptors with equal keys stand in their input order
ClaimedKey(v) ==
  << IF v.site = "YouTube" THEN 1 ELSE 0,
     IF v.official = TRUE THEN 1 ELSE 0,
     IF v.name \in {"Official Trailer", "FILM - OFFICIAL TRAILER [HD]"} THEN 1 ELSE 0,
     CASE v.type = "Trailer" -> 3 [] v.type = "Teaser" -> 2
       [] v.type = "Clip" -> 1 [] OTHER -> 0,
     v.published_at >>

ClaimedOrder(vs) ==
  CHOOSE p \in [1..Len(vs) -> 1..Len(vs)] :
    /\ \A i, j \in 1..Len(vs) : i # j => p[i] # p[j]
    /\ \A i, j \in 1..Len(vs) :
         i < j => /\ ~KeyLess(ClaimedKey(vs[p[i]]), ClaimedKey(vs[p[j]]))
                  /\ ClaimedKey(vs[p[i]]) = ClaimedKey(vs[p[j]]) => p[i] < p[j]

\* the URLs of the descriptors that have one, in the claimed order
UsableUrls(vs) ==
  LET p == ClaimedOrder(vs)
      urls == [i \in 1..Len(vs) |-> VideoUrl(vs[p[i]])]
  IN SelectSeq(urls, LAMBDA u : u # None)

\* the first (up to 2) distinct of them
FirstTwoDistinct(us) ==
  IF us = <<>> THEN <<>>
  ELSE LET others == {k \in 2..Len(us) : us[k] # us[1]} IN
       IF others = {} THEN <<us[1]>>
       ELSE <<us[1], us[CHOOSE k \in others : \A m \in others : k <= m]>>

\* C9 (as claimed): when the videos of an item have been accepted, its
\* trailers are the first (up to 2) distinct usable URLs of the descriptors
\* taken in descending order of the key, equal keys in input order.
C9_SelectedTrailers ==
  (IsTmdb(pc) /\ stage = "build" /\ lastCall[5] = "videos" /\ outcome = "success")
    => trailers = FirstTwoDistinct(UsableUrls(videos))

\* C10: in the document main builds, total_entries is the length of movies
\* and the sum of the four breakdown counts.
C10_Totals ==
  pc \in {"write", "done"} =>
    /\ output.total_entries = Len(output.movies)
    /\ output.total_entries =
         output.breakdown.tmdb_movies + output.breakdown.tmdb_tv
         + output.breakdown.tvmaze_shows + output.breakdown.wikidata_movies

\* the document of a run in which every provider gave a record
C10_Witness ==
  /\ pc = "done"
  /\ output.breakdown.tmdb_movies > 0 /\ output.breakdown.tmdb_tv > 0
  /\ output.breakdown.tvmaze_shows > 0 /\ output.breakdown.wikidata_movies > 0
  /\ output.total_entries = Len(output.movies)

\* the position of a category in the dict a fetcher iterates (line 98 / 281)
CatIndex(fn, c) == CHOOSE k \in 1..Len(Categories(fn)) : Categories(fn)[k] = c

\* position (cat, page, idx) of a fetcher, in the order of its three loops
PosLeq(c1, p1, i1, c2, p2, i2) ==
  \/ c1 < c2
  \/ c1 = c2 /\ p1 < p2
  \/ c1 = c2 /\ p1 = p2 /\ i1 <= i2

\* the order inside a TMDb fetcher and in the document
C11_State ==
  /\ \A fn \in {"fetch_tmdb", "fetch_tmdb_tv"} :
       \A i, j \in 1..Len(Held(fn)) :
         i < j => CatIndex(fn, Held(fn)[i].category) <= CatIndex(fn, Held(fn)[j].category)
  /\ pc \in {"write", "done"} =>
       /\ Len(output.movies) =
            Len(tmdb_movies) + Len(tmdb_tv) + Len(tvmaze_shows) + Len(wikidata_movies)
       /\ SubSeq(output.movies, 1, Len(tmdb_movies)) = tmdb_movies
       /\ SubSeq(output.movies, Len(tmdb_movies) + 1,
                 Len(tmdb_movies) + Len(tmdb_tv)) = tmdb_tv
       /\ SubSeq(output.movies, Len(tmdb_movies) + Len(tmdb_tv) + 1,
                 Len(tmdb_movies) + Len(tmdb_tv) + Len(tvmaze_shows)) = tvmaze_shows
       /\ SubSeq(output.movies,
                 Len(tmdb_movies) + Len(tmdb_tv) + Len(tvmaze_shows) + 1,
                 Len(output.movies)) = wikidata_movies

C11_Step ==
  \A fn \in {"fetch_tmdb", "fetch_tmdb_tv"} :
    pc = fn =>
      /\ pc' = fn => PosLeq(cat, page, idx, cat', page', idx')
      /\ (stage = "build" /\ IsDict(details)) =>
           /\ Len(Held(fn)') = Len(Held(fn)) + 1
           /\ SubSeq(Held(fn)', 1, Len(Held(fn))) = Held(fn)
           /\ Held(fn)'[Len(Held(fn)')].id = results[idx].id
           /\ Held(fn)'[Len(Held(fn)')].category = Categories(fn)[cat]
      /\ ~(stage = "build" /\ IsDict(details)) => IsPrefix(Held(fn)', Held(fn))

\* C11: the document's movies are the four lists in the order TMDb movies,
\* TMDb TV, TVMaze, Wikidata; a TMDb fetcher walks categories, then pages,
\* then items, each record it builds goes behind those it holds, whether or
\* not the item already has a record, and no other step adds or moves one.
C11_OrderNoDedup == [](C11_State) /\ [][C11_Step]_vars

\* the document holds the same item twice, under two categories, the record
\* of the earlier category first
C11_Witness ==
  /\ pc = "done" /\ Len(tmdb_movies) >= 2
  /\ \E i, j \in 1..Len(tmdb_movies) :
       /\ i < j
       /\ output.movies[i].id = output.movies[j].id
       /\ output.movies[i].category = "trending"
       /\ output.movies[j].category = "popular"

\* the number of records of a list with category c
HowMany(items, c) == Cardinality({i \in 1..Len(items) : items[i].category = c})

RECURSIVE SumOf(_, _)
SumOf(f, keys) ==
  IF keys = {} THEN 0
  ELSE LET k == CHOOSE x \in keys : TRUE IN f[k] + SumOf(f, keys \ {k})

\* C12: in the document, tmdb_categories and tmdb_tv_categories hold for
\* each category of a record the number of records with it, no entry for a
\* category without a record; their values sum to breakdown.tmdb_movies and
\* breakdown.tmdb_tv.
C12_CategoryCounts ==
  pc \in {"write", "done"} =>
    /\ DOMAIN output.tmdb_categories =
         {tmdb_movies[i].category : i \in 1..Len(tmdb_movies)}
    /\ DOMAIN output.tmdb_tv_categories =
         {tmdb_tv[i].category : i \in 1..Len(tmdb_tv)}
    /\ \A c \in DOMAIN output.tmdb_categories :
         output.tmdb_categories[c] = HowMany(tmdb_movies, c)
    /\ \A c \in DOMAIN output.tmdb_tv_categories :
         output.tmdb_tv_categories[c] = HowMany(tmdb_tv, c)
    /\ SumOf(output.tmdb_categories, DOMAIN output.tmdb_categories)
         = output.breakdown.tmdb_movies
    /\ SumOf(output.tmdb_tv_categories, DOMAIN output.tmdb_tv_categories)
         = output.breakdown.tmdb_tv

\* a document with two records under each of two categories
C12_Witness ==
  /\ pc = "done"
  /\ DOMAIN output.tmdb_categories = {"trending", "popular"}
  /\ output.tmdb_categories["trending"] = 2
  /\ output.tmdb_categories["popular"] = 2
  /\ output.breakdown.tmdb_movies = 4

\* the (namespace, key) a pagination loop would keep its cursor under: the
\* fetcher, and the category (one key for the single loop of fetch_tvmaze)
CursorKey(fn, c) == IF IsTmdb(fn) THEN Categories(fn)[c] ELSE "shows"

\* C13 (as claimed): no listing page is requested that lies before the page
\* get_start_page returns, for the loop's (namespace, key), in the state
\* loaded from state.json at process start.
C13_ResumesAtCursor ==
  (lastCall[1] \in PageFetchers /\ lastCall[5] = "page") =>
    lastCall[3] >= get_start_page(load_state(state_file), lastCall[1],
                                  CursorKey(lastCall[1], lastCall[2]), DefaultStart)

\* a step that leaves a page whose listing was accepted
C14_CompletesPage(fn) ==
  /\ pc = fn
  /\ pc' # pc \/ cat' # cat \/ page' # page
  /\ ~(stage = "page" /\ outcome' = "exhausted")

C14_Step ==
  \A fn \in PageFetchers :
    C14_CompletesPage(fn) =>
      get_start_page(state', fn, CursorKey(fn, cat), DefaultStart) = page + 1

C14_Saved == pc = "done" => state_file = JsonFile(json_dump(state))

\* C14 (as claimed): the step that completes page p of a key leaves the
\* key's cursor at p + 1, whether or not the page had items, and at the end
\* of main state.json holds the state.
C14_CursorAdvances == [](C14_Saved) /\ [][C14_Step]_vars

\* pages a caller may hand to set_next_page
RoundTripPages == {-12, 0, MaxCursor, 305}

\* what get_start_page reads under every (namespace, key)
CursorsOf(st) ==
  [ns \in Namespaces |-> [k \in Keys |-> get_start_page(st, ns, k, DefaultStart)]]

C15_State ==
  \A ns \in Namespaces, k \in Keys, p \in RoundTripPages :
    LET set == set_next_page(state, ns, k, p)
        back == load_state(CHOOSE f \in save_state(set, state_file) :
                             f = JsonFile(json_dump(set)))
    IN /\ get_start_page(back, ns, k, DefaultStart) = p
       /\ CursorsOf(back) = CursorsOf(set)

C15_Step ==
  /\ (pc' = "save_state" /\ outcome' = "success")
       => CursorsOf(load_state(state_file')) = CursorsOf(state)
  /\ (pc' = "load_state" /\ state_file = JsonFile(json_dump(state)))
       => CursorsOf(state') = CursorsOf(state)

\* C15: a page set under (namespace, key), saved and loaded again, is the
\* page get_start_page returns for (namespace, key), and every other
\* (namespace, key) reads the value it read before the save.
C15_RoundTrip == [](C15_State) /\ [][C15_Step]_vars

\* a state was loaded from the file a save wrote after set_next_page had put
\* one key at page 2
C15_Witness ==
  /\ pc = "load_state" /\ outcome = "success"
  /\ state_file = JsonFile(json_dump(state))
  /\ get_start_page(state, "fetch_tmdb", "trending", DefaultStart) = 2
  /\ get_start_page(state, "fetch_tmdb", "popular", DefaultStart) = 1
  /\ "fetch_tvmaze" \in DOMAIN state

C16_Step ==
  pc' = "set_next_page" =>
    \A ns \in Namespaces, k \in Keys :
      get_start_page(state', ns, k, DefaultStart)
        >= get_start_page(state, ns, k, DefaultStart)

\* C16 (as claimed): no call of set_next_page leaves a key with a smaller
\* next_page than it held before.
C16_NeverDecreases == [][C16_Step]_vars

\* the entry of (namespace, key), empty when there is none
Entry(st, ns, k) == Get(Get(st, ns, EmptyDict), k, EmptyDict)

C17_Step ==
  pc' = "set_next_page" =>
    /\ DOMAIN state \subseteq DOMAIN state'
    /\ \A ns \in DOMAIN state : DOMAIN state[ns] \subseteq DOMAIN state'[ns]
    /\ \E ns \in Namespaces, k \in Keys :
         \A ns2 \in Namespaces, k2 \in Keys :
           <<ns2, k2>> # <<ns, k>> => Entry(state', ns2, k2) = Entry(state, ns2, k2)

\* C17: a call of set_next_page changes the entry of one (namespace, key)
\* and leaves every other key of the namespace and every key of every other
\* namespace as it was.
C17_OnlyItsKey == [][C17_Step]_vars

\* set_next_page has put one key at page 2 in a state that holds the other
\* key of the namespace and the other namespace at page 1
C17_Witness ==
  /\ pc = "set_next_page"
  /\ get_start_page(state, "fetch_tmdb", "popular", DefaultStart) = 2
  /\ Entry(state, "fetch_tmdb", "trending") = [next_page |-> 1]
  /\ Entry(state, "fetch_tvmaze", "popular") = [next_page |-> 1]

C18_Step ==
  /\ (state_file.kind # "json" /\ pc' \in {"load_state", "crashed"} /\ pc # pc')
       => /\ pc' = "load_state"
          /\ state' = EmptyDict
          /\ \A ns \in Namespaces, k \in Keys :
               get_start_page(state', ns, k, DefaultStart) = 1
  /\ (pc' = "save_state" /\ outcome' = "failed") => state' = state

\* C18: load_state on a missing or unreadable state.json gives the empty
\* state, under which get_start_page returns 1 for every key; a failed
\* save_state leaves the state as it is; neither ends the process.
C18_StateFailuresSwallowed == [](pc # "crashed") /\ [][C18_Step]_vars

\* the empty state was loaded from an unreadable state.json
C18_Witness ==
  /\ pc = "load_state" /\ outcome = "failed"
  /\ state_file = CorruptFile /\ state = EmptyDict

\* C19 (as claimed): a run whose output could not be written ends with a
\* non-zero exit status.
C19_WriteFailureFatal == (pc = "done" /\ written = "failed") => ExitStatus # 0

\* every record held anywhere: by a fetcher, by main, in the document
AllRecords ==
  LET held == all_items \o category_items \o page_items \o tmdb_movies \o tmdb_tv
              \o tvmaze_shows \o wikidata_movies \o output.movies
  IN {held[i] : i \in 1..Len(held)}

\* C20 (as claimed): every record has a source and a title, neither of
\* them null.
C20_TitlePresent == \A r \in AllRecords : r.source # None /\ r.title # None

\* the symbol claimed for the details of a movie
C21_Symbol(d) ==
  LET pcs == Get(d, "production_countries", <<>>) IN
  IF pcs = <<>> THEN "$"
  ELSE IF pcs[1].iso_3166_1 \in DOMAIN CURRENCY_MAP
  THEN CURRENCY_MAP[pcs[1].iso_3166_1]
  ELSE "$"

\* the number a text of decimal digits stands for
RECURSIVE C21_Value(_)
C21_Value(t) ==
  IF t = <<>> THEN 0
  ELSE C21_Value(SubSeq(t, 1, Len(t) - 1)) * 10
       + (CHOOSE v \in 0..9 : DigitChars[v + 1] = t[Len(t)])

\* text is the symbol followed by the amount, a comma at every fourth place
\* counted from the end and nowhere else
C21_Formatted(text, symbol, amount) ==
  /\ Len(text) >= 2 /\ text[1] = symbol
  /\ LET t == Tail(text) IN
     /\ t[1] \notin {",", "0"}
     /\ \A i \in 1..Len(t) : (t[i] = ",") <=> ((Len(t) - i + 1) % 4 = 0)
     /\ C21_Value(SelectSeq(t, LAMBDA ch : ch # ",")) = amount

C21_Field(text, d, field) ==
  IF field \in DOMAIN d /\ d[field] # 0
  THEN C21_Formatted(text, C21_Symbol(d), d[field])
  ELSE text = NoText

C21_Step ==
  (pc = "fetch_tmdb" /\ stage = "build" /\ IsDict(details)) =>
    /\ Len(page_items') = Len(page_items) + 1
    /\ C21_Field(page_items'[Len(page_items')].budget, details, "budget")
    /\ C21_Field(page_items'[Len(page_items')].revenue, details, "revenue")

\* C21: the budget and the revenue of a TMDb movie record are the symbol of
\* the first listed production country ("$" when the country is not in the
\* table or none is listed) followed by the amount with a separator between
\* the groups of three digits; an amount of 0 or an absent amount gives no
\* text; 5000000 with "US" gives "$5,000,000".
C21_Currency ==
  /\ [](Money([production_countries |-> Countries(<<"US">>), budget |-> 5000000],
              "budget")
          = <<"$", "5", ",", "0", "0", "0", ",", "0", "0", "0">>)
  /\ [][C21_Step]_vars

\* a record with a budget of 1234567 in the currency of the first of two
\* countries and, its revenue being 0, no revenue
C21_Witness ==
  /\ pc = "fetch_tmdb" /\ stage = "next" /\ Len(page_items) = 1
  /\ details = Priced(<< <<"GB", "US">> >>, <<1234567>>, <<0>>)
  /\ page_items[1].budget
       = <<"pound", "1", ",", "2", "3", "4", ",", "5", "6", "7">>
  /\ page_items[1].revenue = NoText

\* C22 (as claimed): the year of every TMDb movie, TMDb TV and TVMaze
\* record is a string of 4 characters or "N/A".
C22_YearFourOrNA ==
  \A r \in AllRecords : "year" \in DOMAIN r => (Len(r.year) = 4 \/ r.year = NA)

\* the wait claimed after failed attempt k of a call site
C23_Wait(site, exc, k) ==
  CASE site = "page" -> 5
    [] site = "query" /\ exc = "Timeout" -> 10 * k
    [] site = "query" /\ exc = "ConnectionError" -> 8 * k
    [] site = "query" -> 5 * k
    [] OTHER -> 3

\* C23: a wait follows a failed attempt that is not the last of its loop
\* and nothing else: 5 s after a listing-page attempt, 3 s after an
\* enrichment attempt, and after failed attempt k (1 <= k <= 4) of the
\* Wikidata query 10k s for a timeout, 8k s for a connection error and 5k s
\* for any other failure; none after a success or after the final attempt.
C23_Waits ==
  /\ wait > 0 =>
       /\ outcome = "failed" /\ ~CleanResp(lastCall, resp)
       /\ gets < MaxAttempts(lastCall[5])
  /\ outcome = "failed" => wait = C23_Wait(lastCall[5], resp.exc, gets)
  /\ outcome \in {"success", "exhausted"} => wait = 0
  /\ (outcome = "failed" /\ lastCall[5] = "query") => gets \in 1..4

\* the fourth attempt of the query timed out: 40 s before the fifth
C23_Witness ==
  /\ pc = "fetch_wikidata" /\ outcome = "failed" /\ gets = 4
  /\ resp.exc = "Timeout" /\ wait = 40 /\ attempt = 4

C24_Step ==
  \A fn \in {"fetch_tmdb", "fetch_tmdb_tv"} :
    (pc = fn /\ stage # "page") =>
      /\ IsPrefix(Held(fn), Held(fn)')
      /\ (stage = "next" /\ idx < Len(results)) =>
           /\ pc' = fn /\ cat' = cat /\ page' = page
           /\ idx' = idx + 1 /\ stage' = "details"

\* C24 (as claimed): while a TMDb fetcher works through the items of a
\* page, no step removes a record it holds, those of the page's earlier
\* items included, and after any item, built or failed, it goes on to the
\* next item of the page.
C24_ItemFailureLocal == [][C24_Step]_vars

\* the list fetch_tvmaze holds, and returns
C25_Shows == IF pc = "fetch_tvmaze" THEN all_items ELSE tvmaze_shows

C25_Step ==
  ( /\ pc = "fetch_tvmaze" /\ lastCall' = ThisCall /\ outcome' = "success"
    /\ resp'.json_ok
    /\ \A i \in 1..Len(Get(resp'.body, "array", <<>>)) : IsDict(resp'.body.array[i]) )
  => LET shows == Get(resp'.body, "array", <<>>) IN
     /\ Len(C25_Shows') = Len(C25_Shows) + Len(shows)
     /\ SubSeq(C25_Shows', 1, Len(C25_Shows)) = C25_Shows
     /\ \A i \in 1..Len(shows) :
          C25_Shows'[Len(C25_Shows) + i].id = shows[i].id

\* C25 (as claimed): a TVMaze page fetched with n shows adds n records
\* behind those held, the record of the page's i-th show in the i-th place.
C25_OneRecordPerShow == [][C25_Step]_vars

====
